---------------------------- MODULE Spec2Model ----------------------------
(***************************************************************************)
(* TruthBot: the market-data handler's derived series (hlcc4, lagged EMA)  *)
(* and the strategy analyzer (trend, support/resistance levels, signal).   *)
(*                                                                         *)
(* Prices are integers (ticks); every derived quantity is an exact         *)
(* rational [num, den] in lowest terms, so that the comparisons the code   *)
(* makes on floats are decided exactly.  The only fixed-point quantity is  *)
(* the volatility (a standard deviation), see Volatility.                  *)
(***************************************************************************)
EXTENDS Integers, Sequences, FiniteSets, TLC

(***************************************************************************)
(* Bounds of the model.  The configured spans (50 / 115 / 200 bars, 50     *)
(* bars per download) are scaled down so that series of a few bars cover   *)
(* both sides of every length threshold.                                   *)
(***************************************************************************)
\* longest series the vendor holds
MaxLen == 7
\* MA_CONFIG['period'], scaled
Period == 2
\* MA_CONFIG['shift'], scaled
Shift == 1
\* StrategyAnalyzer.trend_ma_period, scaled
TrendSpan == 5
\* smallest download _update_symbol_data accepts, scaled
FetchMinCandles == 2

(***************************************************************************)
(* Program constants.                                                      *)
(***************************************************************************)
\* SR_CONFIG['zone_size_pct'] = 0.005 = ZoneSizeNum / ZoneDen
ZoneSizeNum == 5
\* zone_size = 0.002 = RetraceZoneNum / ZoneDen
RetraceZoneNum == 2
ZoneDen == 1000

\* SR_CONFIG['min_touch_points'] as configured
MinTouchPoints == 1
\* ... and the values SpecTouch runs it with: the configured one and the 2 it
\* was reduced from
MinTouchChoices == {MinTouchPoints, 2}

\* the trading pairs, one per class of instrument
TRADING_PAIRS == {"QQQ", "GBP=X"}
ForexPairs == {"GBP=X", "EUR=X", "USD=X"}

\* the candles the vendor can deliver: High, Low, Close in ticks
Candles ==
    { [High |-> 1000, Low |-> 1000, Close |-> 1000],
      [High |-> 1005, Low |-> 1005, Close |-> 1005],
      [High |-> 1006, Low |-> 1006, Close |-> 1006],
      [High |-> 1008, Low |-> 1004, Close |-> 1007] }

(***************************************************************************)
(* Exact rationals and the float values that are not numbers.              *)
(***************************************************************************)
Abs(x) == IF x < 0 THEN -x ELSE x

RECURSIVE GCD(_, _)
GCD(a, b) == IF b = 0 THEN a ELSE GCD(b, a % b)

\* n / d in lowest terms, d > 0
Rat(n, d) == LET g == GCD(Abs(n), d) IN [num |-> n \div g, den |-> d \div g]

NaN == [nan |-> TRUE]
IsNaN(x) == "nan" \in DOMAIN x

RInt(n) == Rat(n, 1)
RAdd(a, b) ==
    IF IsNaN(a) \/ IsNaN(b) THEN NaN
    ELSE LET g == GCD(a.den, b.den)
         IN Rat(a.num * (b.den \div g) + b.num * (a.den \div g),
                (a.den \div g) * b.den)
RNeg(a) == IF IsNaN(a) THEN NaN ELSE [num |-> -a.num, den |-> a.den]
RSub(a, b) == RAdd(a, RNeg(b))
RMul(a, b) ==
    IF IsNaN(a) \/ IsNaN(b) THEN NaN
    ELSE LET g1 == GCD(Abs(a.num), b.den)
             g2 == GCD(Abs(b.num), a.den)
         IN [num |-> (a.num \div g1) * (b.num \div g2),
             den |-> (a.den \div g2) * (b.den \div g1)]
\* float division: x / 0 is inf or nan, which no comparison below accepts
RDiv(a, b) ==
    IF IsNaN(a) \/ IsNaN(b) THEN NaN
    ELSE IF b.num = 0 THEN NaN
    ELSE IF b.num > 0 THEN RMul(a, [num |-> b.den, den |-> b.num])
    ELSE RMul(a, [num |-> -b.den, den |-> -b.num])
RAbs(a) == IF IsNaN(a) THEN NaN ELSE [num |-> Abs(a.num), den |-> a.den]

\* comparisons; every comparison with NaN is false.  Unequal denominators:
\* the integer parts decide, and when they agree the fractional parts do.
RLt(a, b) ==
    /\ ~IsNaN(a)
    /\ ~IsNaN(b)
    /\ IF a.den = b.den THEN a.num < b.num
       ELSE IF a.num \div a.den # b.num \div b.den
            THEN a.num \div a.den < b.num \div b.den
       ELSE (a.num % a.den) * b.den < (b.num % b.den) * a.den
RGt(a, b) == RLt(b, a)
RLe(a, b) == ~IsNaN(a) /\ ~IsNaN(b) /\ ~RLt(b, a)
RGe(a, b) == RLe(b, a)

\* Python's min(a, b) and max(a, b): the first argument unless the second beats it
RMin(a, b) == IF RLt(b, a) THEN b ELSE a
RMax(a, b) == IF RGt(b, a) THEN b ELSE a

(***************************************************************************)
(* pandas helpers.                                                         *)
(***************************************************************************)
\* Series.ewm(span, adjust=False).mean(): y[1] = x[1],
\* y[i] = alpha * x[i] + (1 - alpha) * y[i-1], alpha = 2 / (span + 1)
\* one step, with alpha = 2 / (span + 1):
\* alpha * x + (1 - alpha) * y = (2 * x + (span - 1) * y) / (span + 1)
EwmStep(x, y, span) ==
    Rat(2 * x.num * y.den + (span - 1) * y.num * x.den, (span + 1) * x.den * y.den)

RECURSIVE EwmFrom(_, _, _)
EwmFrom(xs, span, ys) ==
    IF Len(ys) = Len(xs) THEN ys
    ELSE EwmFrom(xs, span,
                 Append(ys, IF Len(ys) = 0 THEN xs[1]
                            ELSE EwmStep(xs[Len(ys) + 1], ys[Len(ys)], span)))

EwmMean(xs, span) == EwmFrom(xs, span, << >>)

\* Series.shift(k): the value of k rows earlier, NaN where there is none
SeriesShift_FillZero(xs, k) ==
    [i \in 1..Len(xs) |-> IF i > k THEN xs[i - k] ELSE RInt(0)]
SeriesShift(xs, k) ==
    [i \in 1..Len(xs) |-> IF i > k THEN xs[i - k] ELSE NaN]

\* integer square root, by bisection
RECURSIVE ISqrtIn(_, _, _)
ISqrtIn(v, lo, hi) ==
    IF lo >= hi THEN lo
    ELSE LET mid == (lo + hi + 1) \div 2
         IN IF mid * mid <= v THEN ISqrtIn(v, mid, hi) ELSE ISqrtIn(v, lo, mid - 1)
ISqrt(v) == ISqrtIn(v, 0, 46340)

RECURSIVE SumFrom(_, _)
SumFrom(s, i) == IF i > Len(s) THEN 0 ELSE s[i] + SumFrom(s, i + 1)
SumSeq(s) == SumFrom(s, 1)

\* data['Close'].pct_change().std() * 100, in percent.  Returns are carried
\* in parts per million and the result to two decimals (fixed point); the
\* sample standard deviation (ddof = 1) needs two returns, else NaN.  A
\* return from a close of 0 is inf or nan, and so is the deviation then.
\* Deviations above 4% are squared in units of 0.01% to stay within range.
Volatility(closes) ==
    LET n   == Len(closes)
        ret == [i \in 1..(n - 1) |->
                   ((closes[i + 1] - closes[i]) * 1000000) \div closes[i]]
    IN IF n < 3 THEN NaN
       ELSE IF \E i \in 1..(n - 1) : closes[i] = 0 THEN NaN
       ELSE LET mean == SumSeq(ret) \div (n - 1)
                dev  == [i \in 1..(n - 1) |-> ret[i] - mean]
            IN IF \E i \in 1..(n - 1) : Abs(dev[i]) > 40000
               THEN LET sq  == [i \in 1..(n - 1) |-> (dev[i] \div 100) * (dev[i] \div 100)]
                        var == SumSeq(sq) \div (n - 2)
                    IN Rat(ISqrt(var), 100)
               ELSE LET sq  == [i \in 1..(n - 1) |-> dev[i] * dev[i]]
                        var == SumSeq(sq) \div (n - 2)
                    IN Rat(ISqrt(var) \div 100, 100)

(***************************************************************************)
(* MarketDataHandler._update_symbol_data: the derived columns.             *)
(***************************************************************************)
\* the stored value when nothing was ever stored for the symbol
None == [none |-> TRUE]

\* data['hlcc4'] = (High + Low + Close + Close) / 4
Hlcc4(c) == Rat(c.High + c.Low + c.Close + c.Close, 4)

\* data['sma'] = data['hlcc4'].ewm(span=period, adjust=False).mean().shift(shift)
Sma_Unshifted(hlcc4) == EwmMean(hlcc4, Period)
Sma(hlcc4) == SeriesShift(EwmMean(hlcc4, Period), Shift)

\* the frame _update_symbol_data stores for a download
DerivedFrame(candles) ==
    LET hlcc4 == [i \in 1..Len(candles) |-> Hlcc4(candles[i])]
    IN [High  |-> [i \in 1..Len(candles) |-> candles[i].High],
        Low   |-> [i \in 1..Len(candles) |-> candles[i].Low],
        Close |-> [i \in 1..Len(candles) |-> candles[i].Close],
        hlcc4 |-> hlcc4,
        sma   |-> Sma(hlcc4)]


(***************************************************************************)
(* State.                                                                  *)
(***************************************************************************)
VARIABLES
    symbol,             \* the trading pair this handler entry and analysis are for
    min_touch_points,   \* SR_CONFIG['min_touch_points']
    market,             \* the candles the vendor holds for the symbol, oldest first
    data,               \* MarketDataHandler.data[symbol]: the stored frame, or None
    pc,                 \* "analyzed" once analyze_symbol has returned for the stored frame
    \* analyze_symbol's locals and return value, as of its last statement
    latest_price, latest_ma, latest_trend_ma,
    is_uptrend, is_downtrend,
    level_multiplier,
    candidates,         \* _find_support_resistance: levels before filtering
    levels,             \* the filtered levels analyze_symbol iterates over
    near_level, level_type, level_price,
    signal

locals == << latest_price, latest_ma, latest_trend_ma, is_uptrend, is_downtrend,
             level_multiplier, candidates, levels, near_level, level_type,
             level_price, signal >>
analysisVars == << symbol, min_touch_points, market, data, pc, locals >>

\* TelegramBot.send_signal and the chat it sends to
VARIABLES
    stored_signals,     \* TelegramBot.stored_signals
    chat,               \* the messages Telegram delivered to TELEGRAM_CHAT_ID, in order
    sending,            \* per caller: the signal of its send_signal call suspended
                        \* at await send_message, or None
    returned,           \* the send_signal call that returned last: its signal and the
                        \* exception its handler logged ("none" if none), or None
    now                 \* datetime.now(), in ticks

notifierVars == << stored_signals, chat, sending, returned, now >>

\* MarketDataHandler._fetch_initial_data
VARIABLES
    initial_fetch,      \* the loop's position and locals: index of the symbol in
                        \* the trading pairs, success, retries
    fetch_log           \* per symbol: the _update_symbol_data calls made for it, the
                        \* pauses slept, how the last call ended, whether a call
                        \* stored data, and the value of success when the loop
                        \* left the symbol

fetchVars == << initial_fetch, fetch_log >>

\* TruthBot.run and cleanup, TelegramBot.start and stop
VARIABLES
    truth_bot,          \* TruthBot: pc (where run() is), running,
                        \* scheduler_running, jobs, pid_file (exists),
                        \* and its market_data handler: connected, data (symbols stored)
    telegram_bot,       \* TelegramBot: is_running, application_running,
                        \* updater_running, and its own handler's connected
    bot_log             \* what was observed: how start() and stop() ended, is_running
                        \* right after start(), the last analyze_markets run

botVars == << truth_bot, telegram_bot, bot_log >>

\* the state outside the handler entry and the analysis of one symbol
collaboratorVars == << notifierVars, fetchVars, botVars >>

vars == << analysisVars, collaboratorVars >>

\* number of rows of a frame, len(data)
FrameLen(df) == Len(df.Close)

\* the confidence and reason strings of the three rules
HighConfidence == "fire fire fire"
MediumConfidence == "fire fire"
ReasonSupport == "Bullish retracement at support in uptrend"
ReasonResistance == "Bearish retracement at resistance in downtrend"
ReasonContinuation == "Trend continuation after pullback to MA"

(***************************************************************************)
(* Exceptions: the class raised, "none" when the statement completes.      *)
(***************************************************************************)
\* data[col] on a frame
HasColumn(df, col) == col \in DOMAIN df

\* lines 28-33: data['Close'], data['sma'] and data['trend_ma'] are read; the
\* vendor's columns are always there, the derived column sma may be missing
ColumnError(df) == IF HasColumn(df, "sma") THEN "none" ELSE "KeyError"

\* except Exception as e: the handler takes every exception class
Caught(exc) == exc \in {"KeyError", "ZeroDivisionError", "ValueError", "TypeError"}

\* x / d on numpy.float64 values (data[...].values, .iloc[-1]): a zero
\* divisor gives inf or nan and a RuntimeWarning, where Python floats raise
DivideError_PythonFloat(d) == IF d = RInt(0) THEN "ZeroDivisionError" ELSE "none"
DivideError(d) == "none"

(***************************************************************************)
(* StrategyAnalyzer._find_support_resistance and _filter_levels.           *)
(***************************************************************************)
\* prices[i] with the code's 0-based index
At(prices, i) == prices[i + 1]

\* the levels one iteration of the scan appends for bar i (0-based).  The
\* field bar records the bar; the code's dict does not carry it.
LevelsAtBar_NonStrict(prices, i, mult) ==
    LET p == At(prices, i)
        support ==
            IF /\ RLe(p, At(prices, i - 1)) /\ RLe(p, At(prices, i - 2))
               /\ RLe(p, At(prices, i + 1)) /\ RLe(p, At(prices, i + 2))
            THEN << [type |-> "support", price |-> p, multiplier |-> mult, bar |-> i] >>
            ELSE << >>
        resistance ==
            IF /\ RGe(p, At(prices, i - 1)) /\ RGe(p, At(prices, i - 2))
               /\ RGe(p, At(prices, i + 1)) /\ RGe(p, At(prices, i + 2))
            THEN << [type |-> "resistance", price |-> p, multiplier |-> mult, bar |-> i] >>
            ELSE << >>
    IN support \o resistance
LevelsAtBar(prices, i, mult) ==
    LET p == At(prices, i)
        support ==
            IF /\ RLt(p, At(prices, i - 1)) /\ RLt(p, At(prices, i - 2))
               /\ RLt(p, At(prices, i + 1)) /\ RLt(p, At(prices, i + 2))
            THEN << [type |-> "support", price |-> p, multiplier |-> mult, bar |-> i] >>
            ELSE << >>
        resistance ==
            IF /\ RGt(p, At(prices, i - 1)) /\ RGt(p, At(prices, i - 2))
               /\ RGt(p, At(prices, i + 1)) /\ RGt(p, At(prices, i + 2))
            THEN << [type |-> "resistance", price |-> p, multiplier |-> mult, bar |-> i] >>
            ELSE << >>
    IN support \o resistance

\* for i in range(2, len(prices) - 2)
RECURSIVE ScanLevels(_, _, _)
ScanLevels(prices, i, mult) ==
    IF i >= Len(prices) - 2 THEN << >>
    ELSE LevelsAtBar(prices, i, mult) \o ScanLevels(prices, i + 1, mult)

FindCandidates(prices, mult) == ScanLevels(prices, 2, mult)

\* abs(price - level['price']) / level['price'] <= SR_CONFIG['zone_size_pct']
Touches_Strict(price, level) ==
    RLt(RDiv(RAbs(RSub(price, level.price)), level.price), Rat(ZoneSizeNum, ZoneDen))
Touches(price, level) ==
    RLe(RDiv(RAbs(RSub(price, level.price)), level.price), Rat(ZoneSizeNum, ZoneDen))

\* the inner loop: touches += 1 for every price in the zone
RECURSIVE CountFrom(_, _, _)
CountFrom(level, prices, j) ==
    IF j > Len(prices) THEN 0
    ELSE (IF Touches(prices[j], level) THEN 1 ELSE 0) + CountFrom(level, prices, j + 1)
CountTouches(level, prices) == CountFrom(level, prices, 1)

\* if touches >= SR_CONFIG['min_touch_points']: filtered.append(level)
KeepLevel(level, prices, minTouch) == CountTouches(level, prices) >= minTouch

\* for level in levels: ...; return filtered
RECURSIVE FilterFrom(_, _, _, _)
FilterFrom(lvls, prices, minTouch, k) ==
    IF k > Len(lvls) THEN << >>
    ELSE (IF KeepLevel(lvls[k], prices, minTouch) THEN << lvls[k] >> ELSE << >>)
         \o FilterFrom(lvls, prices, minTouch, k + 1)
FilterLevels(lvls, prices, minTouch) == FilterFrom(lvls, prices, minTouch, 1)

\* the first exception the divisions of _filter_levels raise; it leaves
\* _filter_levels and is caught in _find_support_resistance (line 156)
FilterError(lvls) ==
    IF \E k \in 1..Len(lvls) : DivideError(lvls[k].price) # "none"
    THEN "ZeroDivisionError"
    ELSE "none"

\* _find_support_resistance: the filtered levels, [] after any exception
\* (data['hlcc4'] missing, or one out of _filter_levels)
FindSupportResistance(df, cands, minTouch) ==
    IF HasColumn(df, "hlcc4") /\ FilterError(cands) = "none"
    THEN FilterLevels(cands, df.hlcc4, minTouch)
    ELSE << >>

(***************************************************************************)
(* StrategyAnalyzer.analyze_symbol.                                        *)
(***************************************************************************)
\* max(MA_CONFIG['period'], self.trend_ma_period) + MA_CONFIG['shift']
MinCandles == (IF Period > TrendSpan THEN Period ELSE TrendSpan) + Shift

\* data is None or len(data) < max(period, trend_ma_period) + shift
InsufficientData_PeriodOnly(df) ==
    IF df = None THEN TRUE ELSE FrameLen(df) < Period + Shift
InsufficientData(df) == IF df = None THEN TRUE ELSE FrameLen(df) < MinCandles

\* data['trend_ma'] = data['Close'].ewm(span=self.trend_ma_period, adjust=False).mean()
TrendMa(df) == EwmMean([i \in 1..FrameLen(df) |-> RInt(df.Close[i])], TrendSpan)

\* is_uptrend = latest_price > latest_trend_ma
IsUptrend(price, trend) == RGt(price, trend)

\* is_downtrend = latest_price < latest_trend_ma
IsDowntrend_OrEqual(price, trend) == RLe(price, trend)
IsDowntrend(price, trend) == RLt(price, trend)

\* the multiplier: volatility-scaled for forex pairs, 0.2 otherwise
LevelMultiplier(sym, df) ==
    IF sym \in ForexPairs
    THEN RMax(Rat(1, 10), RMin(Rat(1, 2), RDiv(Volatility(df.Close), RInt(2))))
    ELSE Rat(1, 5)

\* abs(latest_price - level['price']) / latest_price < zone_size
InRetraceZone(price, level) ==
    RLt(RDiv(RAbs(RSub(price, level.price)), price), Rat(RetraceZoneNum, ZoneDen))

\* for level in levels: if ...: near_level = True; ...; break
\* the position of the level the loop stops at, 0 when it runs to the end
RECURSIVE FirstNear(_, _, _)
FirstNear(lvls, price, k) ==
    IF k > Len(lvls) THEN 0
    ELSE IF InRetraceZone(price, lvls[k]) THEN k
    ELSE FirstNear(lvls, price, k + 1)

\* line 77: is_uptrend and level_type == 'support' and latest_price >= latest_ma
BullishRetracement_AnyTrend(up, ltype, price, ma) ==
    ltype = "support" /\ RGe(price, ma)
BullishRetracement(up, ltype, price, ma) ==
    up /\ ltype = "support" /\ RGe(price, ma)

\* line 89: is_downtrend and level_type == 'resistance' and latest_price <= latest_ma
BearishRetracement(down, ltype, price, ma) ==
    down /\ ltype = "resistance" /\ RLe(price, ma)

\* line 101: is_uptrend and latest_price > latest_ma and latest_ma > latest_trend_ma
Continuation(up, price, ma, trend) ==
    up /\ RGt(price, ma) /\ RGt(ma, trend)

\* min(level_price * (1 - level_multiplier), latest_ma * 0.995)
BuyStopLoss(lprice, ma, mult) ==
    RMin(RMul(lprice, RSub(RInt(1), mult)), RMul(ma, Rat(995, 1000)))

\* max(level_price * (1 + level_multiplier), latest_ma * 1.005)
SellStopLoss(lprice, ma, mult) ==
    RMax(RMul(lprice, RAdd(RInt(1), mult)), RMul(ma, Rat(1005, 1000)))

\* latest_ma * 0.995
ContinuationStopLoss(ma) == RMul(ma, Rat(995, 1000))

\* latest_price * (1 + level_multiplier * 2)
BuyTakeProfit(price, mult) == RMul(price, RAdd(RInt(1), RMul(mult, RInt(2))))

\* latest_price * (1 - level_multiplier * 2)
SellTakeProfit_AsForBuy(price, mult) == RMul(price, RAdd(RInt(1), RMul(mult, RInt(2))))
SellTakeProfit(price, mult) == RMul(price, RSub(RInt(1), RMul(mult, RInt(2))))

\* the signal dict, or None, from the if / elif / elif chain under if near_level
DecideSignal(near, ltype, lprice, up, down, price, ma, trend, mult) ==
    IF near
    THEN IF BullishRetracement(up, ltype, price, ma)
         THEN [direction   |-> "BUY",
               entry       |-> price,
               stop_loss   |-> BuyStopLoss(lprice, ma, mult),
               take_profit |-> BuyTakeProfit(price, mult),
               confidence  |-> HighConfidence,
               reason      |-> ReasonSupport]
         ELSE IF BearishRetracement(down, ltype, price, ma)
         THEN [direction   |-> "SELL",
               entry       |-> price,
               stop_loss   |-> SellStopLoss(lprice, ma, mult),
               take_profit |-> SellTakeProfit(price, mult),
               confidence  |-> HighConfidence,
               reason      |-> ReasonResistance]
         ELSE IF Continuation(up, price, ma, trend)
         THEN [direction   |-> "BUY",
               entry       |-> price,
               stop_loss   |-> ContinuationStopLoss(ma),
               take_profit |-> BuyTakeProfit(price, mult),
               confidence  |-> MediumConfidence,
               reason      |-> ReasonContinuation]
         ELSE None
    ELSE None

(***************************************************************************)
(* Initial state and actions.                                              *)
(***************************************************************************)
\* TelegramBot.__init__: no signal stored, no call under way
NotifierIdle ==
    /\ stored_signals = << >>
    /\ chat = << >>
    /\ sending = [c \in {"job", "command"} |-> None]
    /\ returned = None
    /\ now = 0

\* the trading pairs in the order of config.TRADING_PAIRS
AllTradingPairs == << "^NDX", "QQQ", "GC=F", "GBP=X" >>

\* MarketDataHandler.__init__, before _fetch_initial_data is entered
FetchIdle ==
    /\ initial_fetch = [index |-> 1, success |-> FALSE, retries |-> 0]
    /\ fetch_log = [i \in 1..Len(AllTradingPairs) |->
                       [attempts |-> 0, pauses |-> 0, last |-> "none",
                        stored |-> FALSE, marked |-> FALSE]]

\* TruthBot.__init__ (main.py:33-43), which constructs the Telegram bot;
\* TelegramBot.__init__ connects the Telegram bot's own handler or raises
BotIdle ==
    /\ truth_bot = [pc |-> "constructed", running |-> FALSE,
                    scheduler_running |-> FALSE, jobs |-> {}, pid_file |-> FALSE,
                    connected |-> FALSE, data |-> {}]
    /\ telegram_bot = [is_running |-> FALSE, application_running |-> FALSE,
                       updater_running |-> FALSE, connected |-> TRUE]
    /\ bot_log = [start |-> "none", running_after_start |-> FALSE,
                  stop |-> "none", initial_analysis |-> FALSE, last_run |-> None]

\* everything outside the analysis, as constructed
CollaboratorsIdle == NotifierIdle /\ FetchIdle /\ BotIdle

NoLocals ==
    /\ latest_price = None /\ latest_ma = None /\ latest_trend_ma = None
    /\ is_uptrend = FALSE /\ is_downtrend = FALSE
    /\ level_multiplier = None
    /\ candidates = << >> /\ levels = << >>
    /\ near_level = FALSE /\ level_type = "None" /\ level_price = None
    /\ signal = None

\* MarketDataHandler.__init__ and StrategyAnalyzer.__init__: nothing stored yet
Init ==
    /\ symbol \in TRADING_PAIRS
    /\ min_touch_points = MinTouchPoints
    /\ market = << >>
    /\ data = None
    /\ pc = "idle"
    /\ NoLocals
    /\ CollaboratorsIdle

\* _update_symbol_data(symbol): the vendor has the candles `new` since the last
\* download (none or one bar); a download of FetchMinCandles bars or more is
\* derived and stored, a shorter one leaves the stored frame as it is.  The
\* locals describe the last analyze_symbol call on the stored frame: the
\* call has returned by now and they are dropped.
UpdateSymbolData(new) ==
    /\ Len(market) + Len(new) <= MaxLen
    /\ LET temp_data == market \o new
       IN /\ market' = temp_data
          /\ data' = IF Len(temp_data) >= FetchMinCandles
                     THEN DerivedFrame(temp_data)
                     ELSE data
    /\ pc' = "idle"
    /\ latest_price' = None /\ latest_ma' = None /\ latest_trend_ma' = None
    /\ is_uptrend' = FALSE /\ is_downtrend' = FALSE
    /\ level_multiplier' = None
    /\ candidates' = << >> /\ levels' = << >>
    /\ near_level' = FALSE /\ level_type' = "None" /\ level_price' = None
    /\ signal' = None
    /\ UNCHANGED << symbol, min_touch_points >>
    /\ UNCHANGED collaboratorVars

\* analyze_symbol(symbol, data), lines 23-25: too little data, return None.
\* (pc: a second call on the same frame computes the same values again.)
AnalyzeInsufficient ==
    /\ pc = "idle"
    /\ InsufficientData(data)
    /\ pc' = "analyzed"
    /\ signal' = None
    /\ UNCHANGED << symbol, min_touch_points, market, data,
                    latest_price, latest_ma, latest_trend_ma, is_uptrend,
                    is_downtrend, level_multiplier, candidates, levels,
                    near_level, level_type, level_price >>
    /\ UNCHANGED collaboratorVars

\* analyze_symbol(symbol, data), lines 27-118: the whole analysis
AnalyzeSymbol ==
    /\ pc = "idle"
    /\ ~InsufficientData(data)
    /\ ColumnError(data) = "none"
    /\ data' = ("trend_ma" :> TrendMa(data)) @@ data
    /\ latest_price' = RInt(data'.Close[FrameLen(data')])
    /\ latest_ma' = data'.sma[FrameLen(data')]
    /\ latest_trend_ma' = data'.trend_ma[FrameLen(data')]
    /\ is_uptrend' = IsUptrend(latest_price', latest_trend_ma')
    /\ is_downtrend' = IsDowntrend(latest_price', latest_trend_ma')
    /\ level_multiplier' = LevelMultiplier(symbol, data')
    /\ candidates' = IF HasColumn(data', "hlcc4")
                     THEN FindCandidates(data'.hlcc4, level_multiplier')
                     ELSE << >>
    /\ levels' = FindSupportResistance(data', candidates', min_touch_points)
    /\ LET k == FirstNear(levels', latest_price', 1)
       IN /\ near_level' = (k > 0)
          /\ level_type' = IF k > 0 THEN levels'[k].type ELSE "None"
          /\ level_price' = IF k > 0 THEN levels'[k].price ELSE None
    /\ signal' = DecideSignal(near_level', level_type', level_price', is_uptrend',
                              is_downtrend', latest_price', latest_ma',
                              latest_trend_ma', level_multiplier')
    /\ pc' = "analyzed"
    /\ UNCHANGED << symbol, min_touch_points, market >>
    /\ UNCHANGED collaboratorVars

\* analyze_symbol(symbol, data), lines 27-33 and 120-123: reading a column
\* raises after trend_ma was assigned and the latest close read; the handler
\* logs the exception and returns None
AnalyzeSymbolRaises ==
    /\ pc = "idle"
    /\ ~InsufficientData(data)
    /\ ColumnError(data) # "none"
    /\ data' = ("trend_ma" :> TrendMa(data)) @@ data
    /\ latest_price' = RInt(data'.Close[FrameLen(data')])
    /\ signal' = None
    /\ pc' = IF Caught(ColumnError(data)) THEN "analyzed" ELSE "raised"
    /\ UNCHANGED << symbol, min_touch_points, market,
                    latest_ma, latest_trend_ma, is_uptrend, is_downtrend,
                    level_multiplier, candidates, levels,
                    near_level, level_type, level_price >>
    /\ UNCHANGED collaboratorVars

Next ==
    \/ \E new \in {<< >>} \cup {<< c >> : c \in Candles} : UpdateSymbolData(new)
    \/ AnalyzeInsufficient
    \/ AnalyzeSymbol

Spec == Init /\ [][Next]_vars

\* the same program under either touch-point setting, for one pair
InitTouch ==
    /\ symbol = "QQQ"
    /\ min_touch_points \in MinTouchChoices
    /\ market = << >>
    /\ data = None
    /\ pc = "idle"
    /\ NoLocals
    /\ CollaboratorsIdle

SpecTouch == InitTouch /\ [][Next]_vars

\* StrategyAnalyzer.__init__ reads no configuration and checks none: the
\* analyzer is constructed whatever SR_CONFIG['min_touch_points'] holds, here
\* the configured value or 0
AnyTouchChoices == {0, MinTouchPoints}

InitAnyConfig ==
    /\ symbol = "QQQ"
    /\ min_touch_points \in AnyTouchChoices
    /\ market = << >>
    /\ data = None
    /\ pc = "idle"
    /\ NoLocals
    /\ CollaboratorsIdle

SpecAnyConfig == InitAnyConfig /\ [][Next]_vars

(***************************************************************************)
(* analyze_symbol on frames of any shape: zero prices, derived columns     *)
(* missing or undefined.                                                   *)
(***************************************************************************)
\* candles with a price of zero among them
AnyCandles ==
    { [High |-> 0,    Low |-> 0,    Close |-> 0],
      [High |-> 1005, Low |-> 1005, Close |-> 1005],
      [High |-> 1006, Low |-> 1006, Close |-> 1006] }

\* the frame without one column
WithoutColumn(df, col) == [c \in (DOMAIN df) \ {col} |-> df[c]]
\* the frame with one column undefined throughout
UndefinedColumn(df, col) ==
    [c \in DOMAIN df |-> IF c = col THEN [i \in 1..FrameLen(df) |-> NaN] ELSE df[c]]

\* the frames a caller can pass for a vendor series
AnyFrames(candles) ==
    LET df == DerivedFrame(candles)
    IN { df,
         WithoutColumn(df, "sma"),
         WithoutColumn(df, "hlcc4"),
         UndefinedColumn(df, "sma"),
         UndefinedColumn(df, "hlcc4") }

InitAnyFrame ==
    /\ symbol = "GBP=X"
    /\ min_touch_points = MinTouchPoints
    /\ \E n \in (MinCandles - 1)..MaxLen : market \in [1..n -> AnyCandles]
    /\ data \in AnyFrames(market)
    /\ pc = "idle"
    /\ NoLocals
    /\ CollaboratorsIdle

NextAnyFrame ==
    \/ AnalyzeInsufficient
    \/ AnalyzeSymbol
    \/ AnalyzeSymbolRaises

SpecAnyFrame == InitAnyFrame /\ [][NextAnyFrame]_vars

(***************************************************************************)
(* TelegramBot.send_signal and _format_signal_message.                     *)
(***************************************************************************)
\* len(self.stored_signals) > 100, scaled
MaxStoredSignals == 2
\* the send_signal calls that get an answer from Telegram
MaxSends == 4

\* the tasks that call send_signal: the scheduler's analyze_markets job
\* (main.py:75) and the /signal command handler (telegram_bot.py:164)
Callers == {"job", "command"}

\* the keys _format_signal_message reads
FormatFields ==
    {"direction", "confidence", "symbol", "entry_price", "stop_loss",
     "take_profit", "reason"}

\* signal[key] for a key the dict lacks
FormatError(sig) == IF FormatFields \subseteq DOMAIN sig THEN "none" ELSE "KeyError"

\* the message text, by the values it is made of
FormatSignalMessage(sig) ==
    [emoji       |-> IF sig.direction = "BUY" THEN "green" ELSE "red",
     symbol      |-> sig.symbol,
     direction   |-> sig.direction,
     entry_price |-> sig.entry_price,
     stop_loss   |-> sig.stop_loss,
     take_profit |-> sig.take_profit,
     fires       |-> IF sig.confidence = "High" THEN 3 ELSE 2,
     reason      |-> sig.reason]

\* signal['timestamp'] = datetime.now().isoformat()
Stamp(sig, t) == ("timestamp" :> t) @@ sig

\* if len(stored) > 100: stored = stored[-100:]
KeepLast_First(stored) ==
    IF Len(stored) > MaxStoredSignals
    THEN SubSeq(stored, 1, MaxStoredSignals)
    ELSE stored
KeepLast(stored) ==
    IF Len(stored) > MaxStoredSignals
    THEN SubSeq(stored, Len(stored) - MaxStoredSignals + 1, Len(stored))
    ELSE stored

\* signals as analyze_symbol returns them: a retracement BUY and SELL
AnalyzerSignals ==
    { DecideSignal(TRUE, "support", RInt(1005), TRUE, FALSE,
                   RInt(1006), RInt(1005), RInt(1004), Rat(1, 5)),
      DecideSignal(TRUE, "resistance", RInt(1006), FALSE, TRUE,
                   RInt(1005), RInt(1006), RInt(1007), Rat(1, 5)) }

\* the same signals as dicts with every key the formatter reads
WithNotifierFields(sig, sym) ==
    ("symbol" :> sym) @@ ("entry_price" :> sig.entry) @@ sig
NotifierSignals == {WithNotifierFields(sig, "QQQ") : sig \in AnalyzerSignals}

SignalInputs == AnalyzerSignals \cup NotifierSignals

\* send_signal(signal), lines 190-192 and 211-212: formatting raises, the
\* handler logs it and the call returns without having sent or stored
SendSignalFormatFails(caller, sig) ==
    /\ sending[caller] = None
    /\ now < MaxSends
    /\ FormatError(sig) # "none"
    /\ returned' = [signal |-> sig, error |-> FormatError(sig)]
    /\ UNCHANGED << stored_signals, chat, sending, now >>
    /\ UNCHANGED << analysisVars, fetchVars, botVars >>

\* send_signal(signal), lines 190-199: the message is formatted and the call
\* is suspended at await send_message
SendSignalBegin(caller, sig) ==
    /\ sending[caller] = None
    /\ now < MaxSends
    /\ FormatError(sig) = "none"
    /\ sending' = [sending EXCEPT ![caller] = sig]
    /\ UNCHANGED << stored_signals, chat, returned, now >>
    /\ UNCHANGED << analysisVars, fetchVars, botVars >>

\* send_signal(signal), lines 199-212: Telegram answers.  Delivered: the
\* signal is stamped, appended and the list cut to its last entries;
\* refused: the handler logs the exception.  Either way the call returns.
SendSignalComplete(caller, delivered) ==
    /\ sending[caller] # None
    /\ now < MaxSends
    /\ LET sig == sending[caller]
       IN IF delivered
          THEN /\ chat' = Append(chat, [message |-> FormatSignalMessage(sig), at |-> now])
               /\ stored_signals' = KeepLast(Append(stored_signals, Stamp(sig, now)))
               /\ returned' = [signal |-> sig, error |-> "none"]
          ELSE /\ returned' = [signal |-> sig, error |-> "TelegramError"]
               /\ UNCHANGED << stored_signals, chat >>
    /\ sending' = [sending EXCEPT ![caller] = None]
    /\ now' = now + 1
    /\ UNCHANGED << analysisVars, fetchVars, botVars >>

\* the analysis side at rest: nothing stored, nothing analysed
AnalysisIdle ==
    /\ symbol = "QQQ"
    /\ min_touch_points = MinTouchPoints
    /\ market = << >>
    /\ data = None
    /\ pc = "idle"
    /\ NoLocals

InitNotifier == AnalysisIdle /\ CollaboratorsIdle

NextNotifier ==
    \/ \E caller \in Callers, sig \in SignalInputs : SendSignalFormatFails(caller, sig)
    \/ \E caller \in Callers, sig \in SignalInputs : SendSignalBegin(caller, sig)
    \/ \E caller \in Callers, delivered \in BOOLEAN : SendSignalComplete(caller, delivered)

SpecNotifier == InitNotifier /\ [][NextNotifier]_vars

(***************************************************************************)
(* MarketDataHandler._fetch_initial_data.                                  *)
(***************************************************************************)
\* self.max_retries
MaxRetries == 3

\* how a call of _update_symbol_data ends: an interval gave 50 candles and the
\* frame was stored; no interval did (return at line 113); or an exception
\* was raised before the frame was stored (handler at line 133)
FetchOutcomes == {"stored", "no_data", "error"}

\* _update_symbol_data(symbol) seen from its caller: the body is one try
\* whose handler logs, so every outcome ends in a normal return
UpdateSymbolDataRaises(outcome) == FALSE

\* one pass of the while loop for the current symbol (lines 62-73), and the
\* step to the next symbol when the loop condition fails
FetchAttempt(outcome) ==
    /\ initial_fetch.index <= Len(AllTradingPairs)
    /\ LET i       == initial_fetch.index
           raised  == UpdateSymbolDataRaises(outcome)
           success == ~raised
           retries == IF raised THEN initial_fetch.retries + 1 ELSE initial_fetch.retries
           pause   == raised /\ retries < MaxRetries
           leave   == success \/ retries >= MaxRetries
       IN /\ fetch_log' =
                [fetch_log EXCEPT ![i] =
                    [attempts |-> @.attempts + 1,
                     pauses   |-> @.pauses + (IF pause THEN 1 ELSE 0),
                     last     |-> outcome,
                     stored   |-> @.stored \/ outcome = "stored",
                     marked   |-> success]]
          /\ initial_fetch' =
                IF leave
                THEN [index |-> i + 1, success |-> FALSE, retries |-> 0]
                ELSE [index |-> i, success |-> success, retries |-> retries]
    /\ UNCHANGED << analysisVars, notifierVars, botVars >>

InitFetch == AnalysisIdle /\ CollaboratorsIdle

NextFetch == \E outcome \in FetchOutcomes : FetchAttempt(outcome)

SpecFetch == InitFetch /\ [][NextFetch]_vars

(***************************************************************************)
(* TelegramBot.start and stop.                                             *)
(***************************************************************************)
\* how far start() gets: market_data.connect() fails; initialize() or
\* application.start() raises; start_polling() raises; all of it succeeds
StartOutcomes == {"connect_failed", "application_raised", "polling_raised", "started"}

\* start(): the bot after the call, and whether the call raised
TelegramStart(tb, outcome) ==
    IF tb.is_running
    THEN [bot |-> tb, raised |-> FALSE]
    ELSE IF outcome = "connect_failed"
    THEN [bot |-> [tb EXCEPT !.connected = FALSE], raised |-> FALSE]
    ELSE IF outcome = "application_raised"
    THEN [bot |-> [tb EXCEPT !.connected = TRUE, !.is_running = FALSE],
          raised |-> TRUE]
    ELSE IF outcome = "polling_raised"
    THEN [bot |-> [tb EXCEPT !.connected = TRUE, !.application_running = TRUE,
                             !.is_running = FALSE],
          raised |-> TRUE]
    ELSE [bot |-> [tb EXCEPT !.connected = TRUE, !.application_running = TRUE,
                             !.updater_running = TRUE, !.is_running = TRUE],
          raised |-> FALSE]

\* how far stop() gets once past its guard: updater.stop() raises;
\* application.stop() or shutdown() raises; all of it succeeds
StopOutcomes == {"updater_raised", "application_raised", "stopped"}

\* stop(): the bot after the call, and whether the call raised
TelegramStop(tb, outcome) ==
    IF ~tb.is_running
    THEN [bot |-> tb, raised |-> FALSE]
    ELSE IF outcome = "updater_raised" /\ tb.updater_running
    THEN [bot |-> tb, raised |-> TRUE]
    ELSE IF outcome = "application_raised" /\ tb.application_running
    THEN [bot |-> [tb EXCEPT !.updater_running = FALSE], raised |-> TRUE]
    ELSE [bot |-> [tb EXCEPT !.updater_running = FALSE,
                             !.application_running = FALSE,
                             !.is_running = FALSE],
          raised |-> FALSE]

(***************************************************************************)
(* TruthBot.analyze_markets, run and cleanup.                              *)
(***************************************************************************)
\* get_all_symbols_data() on a handler, when the provider can fetch the pairs
\* `fetchable`: the symbols stored afterwards, and the map returned
GetAllSymbolsData(handler, fetchable) ==
    IF ~handler.connected
    THEN [data |-> handler.data, returned |-> {}]
    ELSE [data |-> handler.data \cup fetchable,
          returned |-> handler.data \cup fetchable]

\* analyze_markets(), called by run() or by the scheduler: what the run found
\* and which pairs it called analyze_symbol for
AnalyzeMarkets(tb, caller, excluded, fetchable) ==
    [by        |-> caller,
     excluded  |-> excluded,
     connected |-> tb.connected,
     fetchable |-> fetchable,
     analyzed  |-> IF excluded THEN {}
                   ELSE TRADING_PAIRS \cap GetAllSymbolsData(tb, fetchable).returned]

\* the handler after an analyze_markets run
HandlerAfterRun(tb, excluded, fetchable) ==
    IF excluded THEN tb.data ELSE GetAllSymbolsData(tb, fetchable).data

\* cleanup(): the PID file after telegram_bot.stop(); the call is in a try of
\* its own, so cleanup_pid_file runs whether or not stop() raised
PidFileAfterStop_Unguarded(stop_raised, pid_file) ==
    IF stop_raised THEN pid_file ELSE FALSE
PidFileAfterStop(stop_raised, pid_file) == FALSE

\* run(), lines 88-100: the PID file is written (or open() raises, and the
\* handler and finally lead to cleanup), running is set, the signal handlers
\* are registered
RunBegin(pid_written) ==
    /\ truth_bot.pc = "constructed"
    /\ truth_bot' = IF pid_written
                    THEN [truth_bot EXCEPT !.pid_file = TRUE, !.running = TRUE,
                                           !.pc = "start"]
                    ELSE [truth_bot EXCEPT !.pc = "cleanup"]
    /\ UNCHANGED << telegram_bot, bot_log >>
    /\ UNCHANGED << analysisVars, notifierVars, fetchVars >>

\* run(), lines 102-108: await telegram_bot.start(); an exception ends run()
RunStartTelegram(outcome) ==
    /\ truth_bot.pc = "start"
    /\ LET result == TelegramStart(telegram_bot, outcome)
       IN /\ telegram_bot' = result.bot
          /\ bot_log' = [bot_log EXCEPT
                            !.start = IF result.raised THEN "raised" ELSE "returned",
                            !.running_after_start = result.bot.is_running]
          /\ truth_bot' = [truth_bot EXCEPT
                              !.pc = IF result.raised THEN "cleanup" ELSE "schedule"]
    /\ UNCHANGED << analysisVars, notifierVars, fetchVars >>

\* run(), lines 110-123: add the job, start the scheduler
RunSchedule ==
    /\ truth_bot.pc = "schedule"
    /\ truth_bot' = [truth_bot EXCEPT !.jobs = @ \cup {"market_analysis"},
                                      !.scheduler_running = TRUE,
                                      !.pc = "initial"]
    /\ UNCHANGED << telegram_bot, bot_log >>
    /\ UNCHANGED << analysisVars, notifierVars, fetchVars >>

\* run(), line 126: the initial analyze_markets()
RunInitialAnalysis(excluded, fetchable) ==
    /\ truth_bot.pc = "initial"
    /\ truth_bot' = [truth_bot EXCEPT !.data = HandlerAfterRun(truth_bot, excluded, fetchable),
                                      !.pc = "loop"]
    /\ bot_log' = [bot_log EXCEPT !.initial_analysis = TRUE,
                                  !.last_run = AnalyzeMarkets(truth_bot, "run", excluded, fetchable)]
    /\ UNCHANGED telegram_bot
    /\ UNCHANGED << analysisVars, notifierVars, fetchVars >>

\* the scheduler fires the market_analysis job while run() sleeps in its loop
ScheduledAnalysis(excluded, fetchable) ==
    /\ truth_bot.pc = "loop"
    /\ truth_bot.scheduler_running
    /\ "market_analysis" \in truth_bot.jobs
    /\ truth_bot' = [truth_bot EXCEPT !.data = HandlerAfterRun(truth_bot, excluded, fetchable)]
    /\ bot_log' = [bot_log EXCEPT
                      !.last_run = AnalyzeMarkets(truth_bot, "scheduler", excluded, fetchable)]
    /\ UNCHANGED telegram_bot
    /\ UNCHANGED << analysisVars, notifierVars, fetchVars >>

\* signal_handler: SIGINT or SIGTERM while run() is under way
SignalHandler ==
    /\ truth_bot.pc \in {"start", "schedule", "initial", "loop"}
    /\ truth_bot.running
    /\ truth_bot' = [truth_bot EXCEPT !.running = FALSE]
    /\ UNCHANGED << telegram_bot, bot_log >>
    /\ UNCHANGED << analysisVars, notifierVars, fetchVars >>

\* run(), lines 129-130: the loop sees running cleared and ends
RunLoopExit ==
    /\ truth_bot.pc = "loop"
    /\ ~truth_bot.running
    /\ truth_bot' = [truth_bot EXCEPT !.pc = "cleanup"]
    /\ UNCHANGED << telegram_bot, bot_log >>
    /\ UNCHANGED << analysisVars, notifierVars, fetchVars >>

\* run()'s finally: cleanup(), lines 137-163
Cleanup(outcome) ==
    /\ truth_bot.pc = "cleanup"
    /\ LET result == TelegramStop(telegram_bot, outcome)
       IN /\ telegram_bot' = result.bot
          /\ bot_log' = [bot_log EXCEPT
                            !.stop = IF result.raised THEN "raised" ELSE "returned"]
          /\ truth_bot' = [truth_bot EXCEPT
                              !.running = FALSE,
                              !.scheduler_running = FALSE,
                              !.data = {},
                              !.connected = FALSE,
                              !.pid_file = PidFileAfterStop(result.raised, @),
                              !.pc = "done"]
    /\ UNCHANGED << analysisVars, notifierVars, fetchVars >>

\* the days analyze_markets can run on, and what the provider can fetch
FetchablePairs == SUBSET TRADING_PAIRS

InitBot == AnalysisIdle /\ CollaboratorsIdle

NextBot ==
    \/ \E pid_written \in BOOLEAN : RunBegin(pid_written)
    \/ \E outcome \in StartOutcomes : RunStartTelegram(outcome)
    \/ RunSchedule
    \/ \E excluded \in BOOLEAN, fetchable \in FetchablePairs :
          RunInitialAnalysis(excluded, fetchable)
    \/ \E excluded \in BOOLEAN, fetchable \in FetchablePairs :
          ScheduledAnalysis(excluded, fetchable)
    \/ SignalHandler
    \/ RunLoopExit
    \/ \E outcome \in StopOutcomes : Cleanup(outcome)

SpecBot == InitBot /\ [][NextBot]_vars

\* every step of run() that is enabled is taken in the end: the awaits
\* return and the loop wakes up
FairSpecBot ==
    /\ SpecBot
    /\ WF_vars(\E outcome \in StopOutcomes : Cleanup(outcome))
    /\ WF_vars(RunLoopExit)

(***************************************************************************)
(* Properties.                                                             *)
(***************************************************************************)
\* analyze_symbol has returned for the stored frame
Analyzed == pc = "analyzed"
\* ... and the frame was long enough for the whole analysis
FullyAnalyzed == Analyzed /\ data # None /\ FrameLen(data) >= MinCandles

\* relative distance of a level to the latest close
RelDistance(level) == RDiv(RAbs(RSub(latest_price, level.price)), latest_price)
\* the validated levels within the retracement zone of the latest close
ZoneLevels == {k \in 1..Len(levels) : RLt(RelDistance(levels[k]), Rat(RetraceZoneNum, ZoneDen))}

\* C1: in an uptrend with close > lagged average > trend average and no
\* validated level within the retracement zone, the analysis returns the
\* continuation BUY (stop = laggedAverage * 0.995, target = close * (1 + 2 mult),
\* medium confidence, continuation reason).
C1_ContinuationWithoutLevel ==
    ( /\ FullyAnalyzed
      /\ is_uptrend
      /\ RGt(latest_price, latest_ma)
      /\ RGt(latest_ma, latest_trend_ma)
      /\ ZoneLevels = {} )
    => signal = [direction   |-> "BUY",
                 entry       |-> latest_price,
                 stop_loss   |-> RMul(latest_ma, Rat(995, 1000)),
                 take_profit |-> RMul(latest_price,
                                      RAdd(RInt(1), RMul(RInt(2), level_multiplier))),
                 confidence  |-> MediumConfidence,
                 reason      |-> ReasonContinuation]

\* C2: when validated levels lie within the retracement zone, the level whose
\* kind and price drive the rules is one of smallest relative distance to the
\* latest close, whatever the detection order.
C2_NearestLevelSelected ==
    (FullyAnalyzed /\ ZoneLevels # {})
    => /\ near_level
       /\ \E k \in ZoneLevels :
            /\ levels[k].type = level_type
            /\ levels[k].price = level_price
            /\ \A j \in ZoneLevels : RLe(RelDistance(levels[k]), RelDistance(levels[j]))

\* C3: every returned signal has stop and target strictly on opposite sides of
\* the entry: BUY stop < entry < target, SELL target < entry < stop.
C3_StopAndTargetOppositeSides ==
    (Analyzed /\ signal # None)
    => /\ signal.direction \in {"BUY", "SELL"}
       /\ signal.direction = "BUY"
            => RLt(signal.stop_loss, signal.entry) /\ RLt(signal.entry, signal.take_profit)
       /\ signal.direction = "SELL"
            => RLt(signal.take_profit, signal.entry) /\ RLt(signal.entry, signal.stop_loss)
       /\ RGt(signal.entry, RInt(0))

C3_SellReturned == Analyzed /\ signal # None /\ signal.direction = "SELL"

\* C4: a high-confidence BUY only in an uptrend at a support with close >=
\* lagged average; a SELL only in a downtrend at a resistance with close <=
\* lagged average; the two conditions never hold together; the call returns
\* one signal or none.
C4_RetracementPairing ==
    Analyzed
    => /\ (signal # None /\ signal.direction = "BUY" /\ signal.confidence = HighConfidence)
            => /\ is_uptrend /\ near_level /\ level_type = "support"
               /\ RGe(latest_price, latest_ma)
       /\ (signal # None /\ signal.direction = "SELL")
            => /\ is_downtrend /\ near_level /\ level_type = "resistance"
               /\ RLe(latest_price, latest_ma)
               /\ signal.confidence = HighConfidence
       /\ ~( /\ is_uptrend /\ level_type = "support"
             /\ is_downtrend /\ level_type = "resistance" )
       /\ \/ signal = None
          \/ DOMAIN signal = {"direction", "entry", "stop_loss", "take_profit",
                              "confidence", "reason"}

C4_HighConfidenceBuyReturned ==
    /\ Analyzed /\ signal # None
    /\ signal.direction = "BUY" /\ signal.confidence = HighConfidence

\* C5: a series shorter than max(period, trendSpan) + shift, or a missing
\* one, is analysed to "no signal": the call returns None.
C5_ShortSeriesNoSignal ==
    (Analyzed /\ (data = None \/ FrameLen(data) < MinCandles)) => signal = None

\* a stored series one bar short of the threshold was analysed
C5_OneBarShortAnalyzed ==
    Analyzed /\ data # None /\ FrameLen(data) = MinCandles - 1

\* the unshifted EMA in its textbook form: ema[1] = x[1],
\* ema[t] = alpha * x[t] + (1 - alpha) * ema[t-1], alpha = 2 / (period + 1)
RECURSIVE TextbookEmaFrom(_, _, _)
TextbookEmaFrom(xs, alpha, ys) ==
    IF Len(ys) = Len(xs) THEN ys
    ELSE TextbookEmaFrom(xs, alpha,
            Append(ys, IF Len(ys) = 0 THEN xs[1]
                       ELSE RAdd(RMul(alpha, xs[Len(ys) + 1]),
                                 RMul(RSub(RInt(1), alpha), ys[Len(ys)]))))
TextbookEma(xs) == TextbookEmaFrom(xs, Rat(2, Period + 1), << >>)

\* C6 as stated: the lagged average is undefined at every index (0-based)
\* below period + shift.
C6_UndefinedBelowPeriodPlusShift ==
    data # None
    => \A i \in 0..(FrameLen(data) - 1) :
          i < Period + Shift => IsNaN(data.sma[i + 1])

\* C6 as amended: the lagged average at index i (0-based) is defined exactly
\* when i >= shift; below shift it is undefined (NaN: not zero, not a number).
C6_DefinedExactlyFromShift ==
    data # None
    => \A i \in 0..(FrameLen(data) - 1) :
          /\ i < Shift => data.sma[i + 1] = NaN
          /\ i >= Shift => /\ ~IsNaN(data.sma[i + 1])
                           /\ DOMAIN data.sma[i + 1] = {"num", "den"}

\* a stored frame with rows on both sides of period + shift
C6_FrameBeyondPeriodPlusShift ==
    data # None /\ FrameLen(data) > Period + Shift

\* C7: for every index i >= shift (0-based) the stored lagged average equals
\* the unshifted EMA of the weighted price at i - shift, indices below shift
\* are undefined, and the latest lagged average analyze_symbol reads is the
\* EMA at index len - 1 - shift.
C7_LagRelation ==
    data # None
    => LET n   == FrameLen(data)
           ema == TextbookEma(data.hlcc4)
       IN /\ \A i \in 0..(n - 1) :
                IF i >= Shift THEN data.sma[i + 1] = ema[i - Shift + 1]
                ELSE IsNaN(data.sma[i + 1])
          /\ FullyAnalyzed => latest_ma = ema[(n - 1 - Shift) + 1]

\* the analysis read a lagged average that differs from the current EMA
C7_LaggedValueRead ==
    /\ FullyAnalyzed
    /\ latest_ma # TextbookEma(data.hlcc4)[FrameLen(data)]

\* number of series prices p with |p - level| <= zoneSizePct * level
TouchCount(level) ==
    Cardinality({ j \in 1..FrameLen(data) :
        RLe(RMul(RAbs(RSub(data.hlcc4[j], level.price)), RInt(ZoneDen)),
            RMul(RInt(ZoneSizeNum), level.price)) })

Validated(level) == \E k \in 1..Len(levels) : levels[k] = level
SupportCandidates == {c \in 1..Len(candidates) : candidates[c].type = "support"}

\* C8: a candidate is validated iff its touch count (zone boundary inclusive)
\* is at least minTouchPoints, and nothing else is; so when the support
\* candidates are one repeated local minimum, minTouchPoints - 1 touches leave
\* no validated support and minTouchPoints touches leave that one price.
C8_ValidatedIffEnoughTouches ==
    FullyAnalyzed
    => /\ \A c \in 1..Len(candidates) :
            Validated(candidates[c]) <=> TouchCount(candidates[c]) >= min_touch_points
       /\ \A k \in 1..Len(levels) : \E c \in 1..Len(candidates) : candidates[c] = levels[k]
       /\ Len(levels) = Cardinality({c \in 1..Len(candidates) :
                                       TouchCount(candidates[c]) >= min_touch_points})
       /\ \A c \in SupportCandidates :
            (\A d \in SupportCandidates : candidates[d].price = candidates[c].price)
            => LET validatedSupport == {levels[k].price : k \in
                        {j \in 1..Len(levels) : levels[j].type = "support"}}
               IN /\ TouchCount(candidates[c]) = min_touch_points - 1
                        => validatedSupport = {}
                  /\ TouchCount(candidates[c]) = min_touch_points
                        => validatedSupport = {candidates[c].price}

\* a support candidate one touch short of the threshold was analysed
C8_SupportOneTouchShort ==
    /\ FullyAnalyzed
    /\ \E c \in SupportCandidates : TouchCount(candidates[c]) = min_touch_points - 1

\* four times the weighted price of bar i (0-based), from the candle columns
FourTimesPrice(i) == data.High[i + 1] + data.Low[i + 1] + 2 * data.Close[i + 1]
InnerBar(i) == i >= 2 /\ i <= FrameLen(data) - 3
StrictMinimum(i) ==
    /\ InnerBar(i)
    /\ \A d \in {-2, -1, 1, 2} : FourTimesPrice(i) < FourTimesPrice(i + d)
StrictMaximum(i) ==
    /\ InnerBar(i)
    /\ \A d \in {-2, -1, 1, 2} : FourTimesPrice(i) > FourTimesPrice(i + d)
CandidatesAt(i, kind) ==
    {c \in 1..Len(candidates) : candidates[c].bar = i /\ candidates[c].type = kind}

\* C9: bar i yields a support candidate exactly when its weighted price is
\* strictly below those of i-2, i-1, i+1, i+2, a resistance candidate exactly
\* when strictly above all four; the first and last two bars yield none, and
\* no bar yields both kinds.
C9_StrictLocalExtrema ==
    FullyAnalyzed
    => /\ \A i \in 0..(FrameLen(data) - 1) :
            /\ Cardinality(CandidatesAt(i, "support")) = (IF StrictMinimum(i) THEN 1 ELSE 0)
            /\ Cardinality(CandidatesAt(i, "resistance")) = (IF StrictMaximum(i) THEN 1 ELSE 0)
            /\ ~InnerBar(i) => CandidatesAt(i, "support") \cup CandidatesAt(i, "resistance") = {}
            /\ CandidatesAt(i, "support") = {} \/ CandidatesAt(i, "resistance") = {}
       /\ \A c \in 1..Len(candidates) :
            /\ candidates[c].type \in {"support", "resistance"}
            /\ candidates[c].bar \in 0..(FrameLen(data) - 1)
            /\ candidates[c].price = data.hlcc4[candidates[c].bar + 1]

\* both kinds of candidate were detected in one series
C9_BothKindsDetected ==
    /\ FullyAnalyzed
    /\ \E c, d \in 1..Len(candidates) :
          candidates[c].type = "support" /\ candidates[d].type = "resistance"

\* C10: when the latest close equals the latest trend average the trend is
\* neither uptrend nor downtrend and the analysis returns no signal.
C10_SidewaysNoSignal ==
    (FullyAnalyzed /\ latest_price = latest_trend_ma)
    => ~is_uptrend /\ ~is_downtrend /\ signal = None

\* a sideways series was analysed with a validated level in the zone
C10_SidewaysAtLevel ==
    FullyAnalyzed /\ latest_price = latest_trend_ma /\ near_level

\* C11: analyze_symbol leaves the series it was given - the handler's stored
\* frame for the symbol - unchanged: same columns and same values after the
\* call as before it.
C11_InputSeriesUnchanged ==
    [][(pc = "idle" /\ pc' = "analyzed") => data' = data]_vars

\* the candidates of price zero, and the others
ZeroCandidates == {c \in 1..Len(candidates) : candidates[c].price = RInt(0)}

\* C12: analyze_symbol never lets an exception out: whatever the frame
\* (columns missing, lagged average undefined, prices of zero) the call
\* returns a signal or None; and a candidate level of price 0 is skipped
\* while every other candidate is validated by its touch count as usual.
C12_NoExceptionZeroLevelSkipped ==
    /\ pc # "raised"
    /\ Analyzed => \/ signal = None
                   \/ signal.direction \in {"BUY", "SELL"}
    /\ (FullyAnalyzed /\ HasColumn(data, "hlcc4") /\ HasColumn(data, "sma"))
       => \A c \in 1..Len(candidates) :
             IF c \in ZeroCandidates
             THEN ~Validated(candidates[c])
             ELSE Validated(candidates[c])
                  <=> TouchCount(candidates[c]) >= min_touch_points

\* a series with a candidate of price zero and a validated level was analysed
C12_ZeroLevelAmongOthers ==
    /\ FullyAnalyzed
    /\ ZeroCandidates # {}
    /\ Len(levels) > 0

\* a frame without its lagged average was analysed
C12_MissingColumnAnalyzed ==
    Analyzed /\ ~InsufficientData(data) /\ ~HasColumn(data, "sma")

\* the configuration is valid
ValidConfig ==
    /\ Period > 0
    /\ Shift >= 0
    /\ TrendSpan > 0
    /\ 0 < ZoneSizeNum /\ ZoneSizeNum < ZoneDen
    /\ min_touch_points >= 1

\* C13: an invalid configuration is rejected when the analyzer is constructed,
\* so no analysis is ever performed under one.
C13_NoAnalysisUnderInvalidConfig == FullyAnalyzed => ValidConfig

\* C14: a signal returned by analyze_symbol has every field the notifier
\* reads, so a send_signal call with it that Telegram does not refuse delivers
\* it to the chat and appends it to stored_signals.
C14_AnalyzerSignalDelivered ==
    (returned # None /\ returned.signal \in AnalyzerSignals
                     /\ returned.error # "TelegramError")
    => /\ FormatFields \subseteq DOMAIN returned.signal
       /\ Len(chat) > 0
       /\ chat[Len(chat)].message.direction = returned.signal.direction
       /\ Len(stored_signals) > 0
       /\ stored_signals[Len(stored_signals)].direction = returned.signal.direction

\* the signals Telegram delivered, stamped as send_signal stores them
Delivered == [i \in 1..Len(chat) |-> [symbol |-> chat[i].message.symbol,
                                      direction |-> chat[i].message.direction,
                                      timestamp |-> chat[i].at]]
StoredSummary == [i \in 1..Len(stored_signals) |->
                     [symbol |-> stored_signals[i].symbol,
                      direction |-> stored_signals[i].direction,
                      timestamp |-> stored_signals[i].timestamp]]

\* C17: stored_signals never holds more than the cap, and holds exactly the
\* most recent delivered signals in the order they were delivered; a call
\* whose send fails adds nothing.
C17_CappedMostRecent ==
    /\ Len(stored_signals) <= MaxStoredSignals
    /\ Len(stored_signals) = (IF Len(chat) < MaxStoredSignals THEN Len(chat)
                              ELSE MaxStoredSignals)
    /\ StoredSummary = SubSeq(Delivered, Len(chat) - Len(stored_signals) + 1, Len(chat))
    /\ \A i \in 1..Len(stored_signals) : FormatError(stored_signals[i]) = "none"

\* more signals were delivered than the cap, and a send failed after that
C17_CapExceededThenFailure ==
    /\ Len(chat) > MaxStoredSignals
    /\ returned # None /\ returned.error = "TelegramError"

\* _fetch_initial_data has returned
FetchDone == initial_fetch.index > Len(AllTradingPairs)

\* C19: when _fetch_initial_data has returned, every trading pair was
\* attempted; a pair is marked successful only if a call stored data for it;
\* a pair whose calls stored nothing was attempted max_retries times with a
\* pause between attempts; a pair whose first call stored data was attempted
\* once.
C19_RetryUntilStored ==
    FetchDone
    => \A i \in 1..Len(AllTradingPairs) :
          /\ fetch_log[i].attempts >= 1
          /\ fetch_log[i].attempts <= MaxRetries
          /\ fetch_log[i].marked => fetch_log[i].stored
          /\ ~fetch_log[i].stored
                => /\ fetch_log[i].attempts = MaxRetries
                   /\ fetch_log[i].pauses = MaxRetries - 1
          /\ fetch_log[i].stored => fetch_log[i].pauses = fetch_log[i].attempts - 1

\* C15: once start() has left the Telegram bot running, every
\* analyze_markets run on a day that is not excluded finds the TruthBot's own
\* handler connected and calls analyze_symbol for every pair the provider
\* can fetch.
C15_ScheduledAnalysisReachesAnalyzer ==
    ( /\ bot_log.last_run # None
      /\ bot_log.start = "returned" /\ bot_log.running_after_start
      /\ ~bot_log.last_run.excluded )
    => /\ bot_log.last_run.connected
       /\ bot_log.last_run.fetchable \subseteq bot_log.last_run.analyzed

\* C16: when start() has not left the Telegram bot running, run() adds no
\* job, starts no scheduler and runs no initial analysis; the scheduler runs
\* only while is_running is true.
C16_StartFailureStopsRun ==
    /\ (bot_log.start # "none" /\ ~bot_log.running_after_start)
       => /\ truth_bot.jobs = {}
          /\ ~truth_bot.scheduler_running
          /\ ~bot_log.initial_analysis
    /\ truth_bot.scheduler_running => telegram_bot.is_running

\* run() has ended
RunEnded == truth_bot.pc = "done"
\* everything is shut down
ShutDown ==
    /\ ~truth_bot.running
    /\ ~truth_bot.scheduler_running
    /\ truth_bot.data = {} /\ ~truth_bot.connected
    /\ ~truth_bot.pid_file
    /\ bot_log.stop # "none"

\* C18: however run() ends - start failure, a signal clearing running, an
\* exception - cleanup() runs to its end, and then running is False, the
\* scheduler is not running, the handler is closed and the PID file is gone,
\* also when telegram_bot.stop() raised.
C18_ShutdownCompletes ==
    /\ [](RunEnded => ShutDown)
    /\ [](bot_log.start = "raised" => <>RunEnded)
    /\ []((truth_bot.pc = "loop" /\ ~truth_bot.running) => <>RunEnded)
    /\ [](truth_bot.pc = "cleanup" => <>RunEnded)

\* run() ended after a signal, with the scheduler started and stop() raising
C18_EndedThoughStopRaised ==
    /\ RunEnded
    /\ bot_log.stop = "raised"
    /\ bot_log.initial_analysis

\* C20: whenever is_running is False neither the application nor its updater
\* is running; in particular not after stop() has returned normally, however
\* far the start() before it got.
C20_IsRunningTracksApplication ==
    /\ ~telegram_bot.is_running
       => ~telegram_bot.application_running /\ ~telegram_bot.updater_running
    /\ bot_log.stop = "returned"
       => ~telegram_bot.application_running /\ ~telegram_bot.updater_running

=============================================================================
